---------------------------- MODULE Spec2Model ----------------------------
(***************************************************************************)
(* A model of the text-to-SQL helper repository:                           *)
(*   src/core/database.py   parse_sql_schema, load_schema_from_file,       *)
(*                          format_schema_for_prompt, validate_schema      *)
(*   src/sql_generator.py   improve_prompt, generate_sql_from_prompt,      *)
(*                          pipeline_generate_sql                          *)
(*                                                                         *)
(* Text that the code scans (DDL, file suffixes) is a sequence of          *)
(* one-character strings, so that the regular expressions, split(),        *)
(* strip() and upper() are computed character by character.  Text that     *)
(* the code only stores or concatenates (dictionary keys, type strings,    *)
(* formatted output) is a TLA+ string; Join turns the former into the      *)
(* latter.  Python values are tagged pairs (PyNone, PyStr, PyDict, ...);   *)
(* a dict is the sequence of its <<key, value>> items in insertion order.  *)
(***************************************************************************)
EXTENDS Integers, Sequences, FiniteSets, TLC

VARIABLES
    pc,       \* position of the call under way
    arg,      \* the arguments of the call (and the environment it runs in)
    ret,      \* its outcome: nothing yet, a returned value or a raised error
    ddl,      \* how the SQL text of this run was written (statements, clauses)
    events,   \* the effects so far: file system, decoders, model calls
    schema,   \* pipeline_generate_sql's variable `schema`
    improved_prompt   \* pipeline_generate_sql's variable `improved_prompt`

vars == << pc, arg, ret, ddl, events, schema, improved_prompt >>

----------------------------------------------------------------------------
(* Characters and strings                                                  *)

LowerChars == {"a","b","c","d","e","f","g","h","i","j","k","l","m",
               "n","o","p","q","r","s","t","u","v","w","x","y","z"}
UpperChars == {"A","B","C","D","E","F","G","H","I","J","K","L","M",
               "N","O","P","Q","R","S","T","U","V","W","X","Y","Z"}
DigitChars == {"0","1","2","3","4","5","6","7","8","9"}

UpperMap ==
    "a" :> "A" @@ "b" :> "B" @@ "c" :> "C" @@ "d" :> "D" @@ "e" :> "E" @@
    "f" :> "F" @@ "g" :> "G" @@ "h" :> "H" @@ "i" :> "I" @@ "j" :> "J" @@
    "k" :> "K" @@ "l" :> "L" @@ "m" :> "M" @@ "n" :> "N" @@ "o" :> "O" @@
    "p" :> "P" @@ "q" :> "Q" @@ "r" :> "R" @@ "s" :> "S" @@ "t" :> "T" @@
    "u" :> "U" @@ "v" :> "V" @@ "w" :> "W" @@ "x" :> "X" @@ "y" :> "Y" @@
    "z" :> "Z"

LowerMap ==
    "A" :> "a" @@ "B" :> "b" @@ "C" :> "c" @@ "D" :> "d" @@ "E" :> "e" @@
    "F" :> "f" @@ "G" :> "g" @@ "H" :> "h" @@ "I" :> "i" @@ "J" :> "j" @@
    "K" :> "k" @@ "L" :> "l" @@ "M" :> "m" @@ "N" :> "n" @@ "O" :> "o" @@
    "P" :> "p" @@ "Q" :> "q" @@ "R" :> "r" @@ "S" :> "s" @@ "T" :> "t" @@
    "U" :> "u" @@ "V" :> "v" @@ "W" :> "w" @@ "X" :> "x" @@ "Y" :> "y" @@
    "Z" :> "z"

\* str.upper() and str.lower(), one character
UpperChar(c) == IF c \in LowerChars THEN UpperMap[c] ELSE c
LowerChar(c) == IF c \in UpperChars THEN LowerMap[c] ELSE c

\* the regular expression classes \w and \s
IsWord(c)  == c \in LowerChars \/ c \in UpperChars \/ c \in DigitChars \/ c = "_"
IsSpace(c) == c \in {" ", "\n", "\t"}

StrUpper(s) == [i \in 1..Len(s) |-> UpperChar(s[i])]
StrLower(s) == [i \in 1..Len(s) |-> LowerChar(s[i])]

StartsWith(s, p) == Len(s) >= Len(p) /\ SubSeq(s, 1, Len(p)) = p

\* the characters of s as one string
RECURSIVE JoinFrom(_, _)
JoinFrom(s, i) == IF i > Len(s) THEN "" ELSE s[i] \o JoinFrom(s, i + 1)

Join(s) == JoinFrom(s, 1)

\* the first position >= i of s that holds no white space (Len(s)+1 if none)
RECURSIVE SkipSpaces(_, _)
SkipSpaces(s, i) ==
    IF i <= Len(s) /\ IsSpace(s[i]) THEN SkipSpaces(s, i + 1) ELSE i

\* the first position >= i of s that holds no word character
RECURSIVE SkipWord(_, _)
SkipWord(s, i) ==
    IF i <= Len(s) /\ IsWord(s[i]) THEN SkipWord(s, i + 1) ELSE i

\* the first position >= i of s that holds white space (Len(s)+1 if none)
RECURSIVE SkipNonSpaces(_, _)
SkipNonSpaces(s, i) ==
    IF i <= Len(s) /\ ~IsSpace(s[i]) THEN SkipNonSpaces(s, i + 1) ELSE i

\* the last position <= i of s that holds no white space (0 if none)
RECURSIVE SkipSpacesBack(_, _)
SkipSpacesBack(s, i) ==
    IF i >= 1 /\ IsSpace(s[i]) THEN SkipSpacesBack(s, i - 1) ELSE i

\* str.strip()
Strip(s) == SubSeq(s, SkipSpaces(s, 1), SkipSpacesBack(s, Len(s)))

\* str.split(','): the pieces between the commas (one piece more than
\* there are commas)
SplitComma(s) ==
    LET commas == { i \in 1..Len(s) : s[i] = "," }
        n      == Cardinality(commas)
        \* the place of the k-th comma; 0 and Len(s)+1 bound the string
        at(k)  == IF k = 0 THEN 0
                  ELSE IF k = n + 1 THEN Len(s) + 1
                  ELSE CHOOSE p \in commas :
                          Cardinality({ q \in commas : q < p }) = k - 1
    IN  [k \in 1..(n + 1) |-> SubSeq(s, at(k - 1) + 1, at(k) - 1)]

\* str.split(None, 1): at most two pieces, cut at the first run of white space
SplitWhitespaceOnce_EveryRun(s) ==
    LET b == SkipSpaces(s, 1)
        e == SkipNonSpaces(s, b)
        r == SkipSpaces(s, e)
    IN  IF b > Len(s) THEN << >>
        ELSE IF r > Len(s) THEN << SubSeq(s, b, e - 1) >>
        ELSE << SubSeq(s, b, e - 1), SubSeq(s, r, SkipNonSpaces(s, r) - 1) >>

SplitWhitespaceOnce(s) ==
    LET b == SkipSpaces(s, 1)
        e == SkipNonSpaces(s, b)
        r == SkipSpaces(s, e)
    IN  IF b > Len(s) THEN << >>
        ELSE IF r > Len(s) THEN << SubSeq(s, b, e - 1) >>
        ELSE << SubSeq(s, b, e - 1), SubSeq(s, r, Len(s)) >>

\* whether the literal lit stands at position i of s, letter case ignored
LitAt(s, i, lit) ==
    /\ i + Len(lit) - 1 <= Len(s)
    /\ \A k \in 1..Len(lit) : UpperChar(s[i + k - 1]) = UpperChar(lit[k])

----------------------------------------------------------------------------
(* Python values                                                           *)

\* a value is the pair of its type's name and its content
PyNone      == << "None", 0 >>
PyStr(s)    == << "str",  s >>
PyInt(n)    == << "int",  n >>
PyList(xs)  == << "list", xs >>
PyDict(kvs) == << "dict", kvs >>

Tag(x) == x[1]
Val(x) == x[2]

IsDict(x) == Tag(x) = "dict"

\* the keys of a dict, in insertion order
DictKeys(d) == [i \in 1..Len(Val(d)) |-> Val(d)[i][1]]

HasKey(d, k) == \E i \in 1..Len(Val(d)) : Val(d)[i][1] = k

\* d[k]
DictGet(d, k) == Val(d)[CHOOSE i \in 1..Len(Val(d)) : Val(d)[i][1] = k][2]

\* d[k] = x: a present key keeps its place, a new key goes last
DictSet(d, k, x) ==
    IF HasKey(d, k)
    THEN PyDict([i \in 1..Len(Val(d)) |->
                    IF Val(d)[i][1] = k THEN << k, x >> ELSE Val(d)[i]])
    ELSE PyDict(Append(Val(d), << k, x >>))

\* bool(x)
Truthy(x) ==
    CASE Tag(x) = "None" -> FALSE
      [] Tag(x) = "int"  -> Val(x) # 0
      [] Tag(x) = "str"  -> Val(x) # ""
      [] OTHER          -> Len(Val(x)) > 0

\* the outcome of a call: the value returned, or the error raised (its
\* type and what it carries)
Returned(x) == << "return", x >>
Raised(t, m) == << "raise", << t, m >> >>
Kind(r)  == r[1]
Value(r) == r[2]
NoOutcome == << "none", 0 >>

----------------------------------------------------------------------------
(* parse_sql_schema                                                        *)

\* re: CREATE\s+TABLE\s+(\w+)\s*\((.*?)\);  with IGNORECASE | DOTALL,
\* tried at position i of s.  No part of the pattern can match in two ways
\* up to the body, and the lazy body ends at the first ");" after it.
kwCREATE == << "C","R","E","A","T","E" >>
kwTABLE  == << "T","A","B","L","E" >>

\* the least j >= i with ");" at j (0 if none)
FindClose(s, i) ==
    LET hits == { j \in i..(Len(s) - 1) : s[j] = ")" /\ s[j + 1] = ";" }
    IN  IF hits = {} THEN 0 ELSE CHOOSE j \in hits : \A k \in hits : j <= k

NoMatch == [ok |-> FALSE]

CreateTableAt(s, i) ==
    IF ~LitAt(s, i, kwCREATE) THEN NoMatch
    ELSE
    LET a == i + Len(kwCREATE)
        b == SkipSpaces(s, a)
    IN  IF b = a \/ ~LitAt(s, b, kwTABLE) THEN NoMatch
        ELSE
        LET c == b + Len(kwTABLE)
            d == SkipSpaces(s, c)
            e == SkipWord(s, d)
            f == SkipSpaces(s, e)
        IN  IF d = c \/ e = d \/ f > Len(s) \/ s[f] # "(" THEN NoMatch
            ELSE
            LET g == FindClose(s, f + 1)
            IN  IF g = 0 THEN NoMatch
                ELSE [ok |-> TRUE,
                      table_name  |-> SubSeq(s, d, e - 1),
                      columns_str |-> SubSeq(s, f + 1, g - 1),
                      end |-> g + 2]

\* re.finditer: the matches from position i on, leftmost first, none
\* overlapping
RECURSIVE FindCreateTables(_, _)
FindCreateTables(s, i) ==
    IF i > Len(s) THEN << >>
    ELSE LET m == CreateTableAt(s, i)
         IN  IF m.ok THEN << m >> \o FindCreateTables(s, m.end)
             ELSE FindCreateTables(s, i + 1)


\* re.search of PRIMARY\s+KEY\s*\((\w+)\) with IGNORECASE, tried at position i
kwPRIMARY == << "P","R","I","M","A","R","Y" >>
kwKEY     == << "K","E","Y" >>

PrimaryKeyAt(s, i) ==
    IF ~LitAt(s, i, kwPRIMARY) THEN NoMatch
    ELSE
    LET a == i + Len(kwPRIMARY)
        b == SkipSpaces(s, a)
    IN  IF b = a \/ ~LitAt(s, b, kwKEY) THEN NoMatch
        ELSE
        LET c == SkipSpaces(s, b + Len(kwKEY))
            d == SkipWord(s, c + 1)
        IN  IF c > Len(s) \/ s[c] # "(" \/ d = c + 1
               \/ d > Len(s) \/ s[d] # ")"
            THEN NoMatch
            ELSE [ok |-> TRUE, group1 |-> SubSeq(s, c + 1, d - 1)]

\* re.search of
\*   FOREIGN\s+KEY\s*\((\w+)\)\s+REFERENCES\s+(\w+)\s*\((\w+)\)
\* with IGNORECASE, tried at position i
kwFOREIGN    == << "F","O","R","E","I","G","N" >>
kwREFERENCES == << "R","E","F","E","R","E","N","C","E","S" >>

ForeignKeyAt(s, i) ==
    IF ~LitAt(s, i, kwFOREIGN) THEN NoMatch
    ELSE
    LET a == i + Len(kwFOREIGN)
        b == SkipSpaces(s, a)
    IN  IF b = a \/ ~LitAt(s, b, kwKEY) THEN NoMatch
        ELSE
        LET c == SkipSpaces(s, b + Len(kwKEY))
            d == SkipWord(s, c + 1)
        IN  IF c > Len(s) \/ s[c] # "(" \/ d = c + 1
               \/ d > Len(s) \/ s[d] # ")"
            THEN NoMatch
            ELSE
            LET e == SkipSpaces(s, d + 1)
            IN  IF e = d + 1 \/ ~LitAt(s, e, kwREFERENCES) THEN NoMatch
                ELSE
                LET f == e + Len(kwREFERENCES)
                    g == SkipSpaces(s, f)
                    h == SkipWord(s, g)
                    k == SkipSpaces(s, h)
                    l == SkipWord(s, k + 1)
                IN  IF g = f \/ h = g \/ k > Len(s) \/ s[k] # "("
                       \/ l = k + 1 \/ l > Len(s) \/ s[l] # ")"
                    THEN NoMatch
                    ELSE [ok |-> TRUE,
                          group1 |-> SubSeq(s, c + 1, d - 1),
                          group2 |-> SubSeq(s, g, h - 1),
                          group3 |-> SubSeq(s, k + 1, l - 1)]

\* re.search: the leftmost position >= i where the pattern matches
RECURSIVE SearchPrimaryKey(_, _)
SearchPrimaryKey(s, i) ==
    IF i > Len(s) THEN NoMatch
    ELSE LET m == PrimaryKeyAt(s, i)
         IN  IF m.ok THEN m ELSE SearchPrimaryKey(s, i + 1)

RECURSIVE SearchForeignKey(_, _)
SearchForeignKey(s, i) ==
    IF i > Len(s) THEN NoMatch
    ELSE LET m == ForeignKeyAt(s, i)
         IN  IF m.ok THEN m ELSE SearchForeignKey(s, i + 1)

\* the prefixes the clauses are classified by
prefixPRIMARY_KEY == kwPRIMARY \o << " " >> \o kwKEY
prefixFOREIGN_KEY == kwFOREIGN \o << " " >> \o kwKEY

\* the entry a table starts with
EmptyTableInfo ==
    PyDict(<< << "columns",      PyDict(<< >>) >>,
              << "primary_key",  PyNone >>,
              << "foreign_keys", PyList(<< >>) >> >>)

\* f"{group1} -> {group2}.{group3}"
FkDescriptor(m) ==
    Join(m.group1) \o " -> " \o Join(m.group2) \o "." \o Join(m.group3)

DefaultColumnType == "VARCHAR(255)"

\* col_def.upper().startswith('PRIMARY KEY')
IsPrimaryKeyClause_CaseSensitive(col_def) ==
    StartsWith(col_def, prefixPRIMARY_KEY)

IsPrimaryKeyClause(col_def) ==
    StartsWith(StrUpper(col_def), prefixPRIMARY_KEY)

\* col_def.upper().startswith('FOREIGN KEY')
IsForeignKeyClause(col_def) ==
    StartsWith(StrUpper(col_def), prefixFOREIGN_KEY)

\* schema[table_name]["primary_key"] = pk_match.group(1)
SetPrimaryKey(info, pk_match) ==
    DictSet(info, "primary_key", PyStr(Join(pk_match.group1)))

\* schema[table_name]["foreign_keys"].append(fk_str)
AppendForeignKey_Overwrites(info, fk_match) ==
    DictSet(info, "foreign_keys", PyList(<< PyStr(FkDescriptor(fk_match)) >>))

AppendForeignKey(info, fk_match) ==
    DictSet(info, "foreign_keys",
            PyList(Append(Val(DictGet(info, "foreign_keys")),
                          PyStr(FkDescriptor(fk_match)))))

\* schema[table_name]["columns"][col_name] = col_type
SetColumn(info, col_name, col_type) ==
    DictSet(info, "columns",
            DictSet(DictGet(info, "columns"), col_name, PyStr(col_type)))

\* the body of the loop over column_definitions, for one clause
ParseColumnDef(info, col) ==
    LET col_def == Strip(col)
    IN  IF IsPrimaryKeyClause(col_def)
        THEN LET pk_match == SearchPrimaryKey(col_def, 1)
             IN  IF pk_match.ok THEN SetPrimaryKey(info, pk_match) ELSE info
        ELSE IF IsForeignKeyClause(col_def)
        THEN LET fk_match == SearchForeignKey(col_def, 1)
             IN  IF fk_match.ok THEN AppendForeignKey(info, fk_match) ELSE info
        ELSE LET parts == SplitWhitespaceOnce(col_def)
             IN  IF Len(parts) >= 2
                 THEN SetColumn(info, Join(parts[1]), Join(parts[2]))
                 ELSE IF Len(parts) = 1 /\ Len(parts[1]) > 0
                 THEN SetColumn(info, Join(parts[1]), DefaultColumnType)
                 ELSE info

\* column_definitions = [col.strip() for col in columns_str.split(',')]
ColumnDefinitions(columns_str) ==
    LET pieces == SplitComma(columns_str)
    IN  [i \in 1..Len(pieces) |-> Strip(pieces[i])]

\* the loop over column_definitions, from clause i on
RECURSIVE ParseColumnDefs(_, _, _)
ParseColumnDefs(info, defs, i) ==
    IF i > Len(defs) THEN info
    ELSE ParseColumnDefs(ParseColumnDef(info, defs[i]), defs, i + 1)

\* the body of the loop over the matches, for one match
ParseTable_KeepsEarlier(sch, m) ==
    DictSet(sch, Join(m.table_name),
            ParseColumnDefs(IF HasKey(sch, Join(m.table_name))
                            THEN DictGet(sch, Join(m.table_name))
                            ELSE EmptyTableInfo,
                            ColumnDefinitions(m.columns_str), 1))

ParseTable(sch, m) ==
    DictSet(sch, Join(m.table_name),
            ParseColumnDefs(EmptyTableInfo, ColumnDefinitions(m.columns_str), 1))

\* the loop over the matches, from match i on
RECURSIVE ParseTables(_, _, _)
ParseTables(sch, matches, i) ==
    IF i > Len(matches) THEN sch
    ELSE ParseTables(ParseTable(sch, matches[i]), matches, i + 1)

parse_sql_schema(sql_statements) ==
    ParseTables(PyDict(<< >>), FindCreateTables(sql_statements, 1), 1)

----------------------------------------------------------------------------
(* The SQL texts parse_sql_schema is run on                                *)

MaxClauses == 3     \* clauses in the body of a single statement
MaxStatements == 3  \* statements in one text

SeqsUpTo(S, n) == UNION { [1..k -> S] : k \in 0..n }

tINT     == << "I","N","T" >>
tVARCHAR == << "V","A","R","C","H","A","R","(","1","0",")" >>
tNOTNULL == << "I","N","T"," ","N","O","T"," ","N","U","L","L" >>

\* a column definition `name type`
ColClause(n, t) ==
    [kind |-> "col", names |-> << Join(n), Join(t) >>,
     text |-> n \o << " " >> \o t]

\* PRIMARY KEY(c)
PkClause(c) ==
    [kind |-> "pk", names |-> << Join(c) >>,
     text |-> prefixPRIMARY_KEY \o << "(" >> \o c \o << ")" >>]

\* primary key (c): lower case, a blank before the parenthesis
PkClauseLower(c) ==
    [kind |-> "pk", names |-> << Join(c) >>,
     text |-> StrLower(prefixPRIMARY_KEY) \o << " ", "(" >> \o c \o << ")" >>]

\* PRIMARY KEY (c, d): a key over several columns
PkClauseSeveral(c, d) ==
    [kind |-> "pk_several", names |-> << Join(c), Join(d) >>,
     text |-> prefixPRIMARY_KEY \o << " ", "(" >> \o c \o << ",", " " >> \o d
              \o << ")" >>]

\* FOREIGN KEY (x) REFERENCES y(z)
FkClause(x, y, z) ==
    [kind |-> "fk", names |-> << Join(x), Join(y), Join(z) >>,
     text |-> prefixFOREIGN_KEY \o << " ", "(" >> \o x \o << ")", " " >>
              \o kwREFERENCES \o << " " >> \o y \o << "(" >> \o z \o << ")" >>]

\* FOREIGN KEY (x, w) REFERENCES y(z, v): a key over several columns
FkClauseSeveral(x, w, y, z, v) ==
    [kind |-> "fk_several",
     names |-> << Join(x), Join(w), Join(y), Join(z), Join(v) >>,
     text |-> prefixFOREIGN_KEY \o << " ", "(" >> \o x \o << ",", " " >> \o w
              \o << ")", " " >> \o kwREFERENCES \o << " " >> \o y \o << "(" >>
              \o z \o << ",", " " >> \o v \o << ")" >>]

\* a column name alone
BareClause(n) == [kind |-> "bare", names |-> << Join(n) >>, text |-> n]

\* nothing between two commas
EmptyClause == [kind |-> "empty", names |-> << >>, text |-> << >>]

ClausePool ==
    { ColClause(<<"a">>, tINT), ColClause(<<"b">>, tVARCHAR),
      ColClause(<<"a">>, tNOTNULL),
      BareClause(<<"b">>), EmptyClause,
      PkClause(<<"a">>), PkClauseLower(<<"b">>),
      PkClauseSeveral(<<"a">>, <<"b">>),
      FkClause(<<"a">>, <<"u">>, <<"b">>), FkClause(<<"b">>, <<"t">>, <<"a">>),
      FkClauseSeveral(<<"a">>, <<"b">>, <<"u">>, <<"a">>, <<"b">>) }

TableNames == { <<"t">>, <<"u">> }

\* CREATE TABLE n (cs); written with the key words in upper case
Statement(n, cs) == [name |-> n, clauses |-> cs, lower |-> FALSE]

\* create table n (cs); written with the key words in lower case
StatementLower(n, cs) == [name |-> n, clauses |-> cs, lower |-> TRUE]

\* the bodies of the statements of a text of several statements
SeveralBodies ==
    { << >>,
      << ColClause(<<"a">>, tINT) >>,
      << ColClause(<<"b">>, tVARCHAR), PkClause(<<"b">>),
         FkClause(<<"b">>, <<"t">>, <<"a">>) >> }

\* one statement with up to MaxClauses clauses of the pool, or up to
\* MaxStatements statements with the bodies above
DdlInputs ==
    { << Statement(<<"t">>, cs) >> : cs \in SeqsUpTo(ClausePool, MaxClauses) }
    \cup
    SeqsUpTo({ Statement(n, cs) : n \in TableNames, cs \in SeveralBodies }
             \cup { StatementLower(n, cs) : n \in TableNames, cs \in SeveralBodies },
             MaxStatements)

\* the clauses, a comma and a blank between two of them
RECURSIVE RenderClauses(_, _)
RenderClauses(cs, i) ==
    IF i > Len(cs) THEN << >>
    ELSE cs[i].text \o (IF i < Len(cs) THEN << ",", " " >> ELSE << >>)
         \o RenderClauses(cs, i + 1)

\* CREATE TABLE <name> (<clauses>);
RenderStatement(st) ==
    (IF st.lower THEN StrLower(kwCREATE \o << " " >> \o kwTABLE)
                 ELSE kwCREATE \o << " " >> \o kwTABLE)
    \o << " " >> \o st.name \o << " ", "(" >>
    \o RenderClauses(st.clauses, 1) \o << ")", ";" >>

\* the statements, one per line
RECURSIVE RenderDdl(_, _)
RenderDdl(d, i) ==
    IF i > Len(d) THEN << >>
    ELSE RenderStatement(d[i]) \o (IF i < Len(d) THEN << "\n" >> ELSE << >>)
         \o RenderDdl(d, i + 1)

----------------------------------------------------------------------------
(* A call of parse_sql_schema                                              *)

InitParse ==
    /\ pc = "call"
    /\ ddl \in DdlInputs
    /\ arg = RenderDdl(ddl, 1)
    /\ ret = NoOutcome
    /\ events = << >>
    /\ schema = PyNone
    /\ improved_prompt = PyNone

ParseSqlSchema ==
    /\ pc = "call"
    /\ ret' = Returned(parse_sql_schema(arg))
    /\ pc' = "returned"
    /\ UNCHANGED << arg, ddl, events, schema, improved_prompt >>

NextParse == ParseSqlSchema

SpecParse == InitParse /\ [][NextParse]_vars

----------------------------------------------------------------------------
(* What a text declares, read off the way it was written                   *)

IndicesOf(cs, kinds) == { i \in 1..Len(cs) : cs[i].kind \in kinds }

TablesOf(d) == { Join(d[i].name) : i \in 1..Len(d) }

\* the place of the first statement on table n
FirstStatementOn(d, n) ==
    CHOOSE i \in 1..Len(d) :
        Join(d[i].name) = n /\ \A j \in 1..(i - 1) : Join(d[j].name) # n

\* the clauses of the last statement on table n
LastClausesOn(d, n) ==
    d[CHOOSE i \in 1..Len(d) :
        Join(d[i].name) = n /\ \A j \in (i + 1)..Len(d) : Join(d[j].name) # n
     ].clauses

KeySet(dict) == { Val(dict)[i][1] : i \in 1..Len(Val(dict)) }

\* columns holds one entry per declared column name, with the type of the
\* name's last declaration
ColumnsAsDeclared(columns, cs) ==
    LET cols == IndicesOf(cs, {"col"})
    IN  /\ KeySet(columns) = { cs[i].names[1] : i \in cols }
        /\ Len(Val(columns)) = Cardinality(KeySet(columns))
        /\ \A i \in cols :
              (\A j \in cols : j > i => cs[j].names[1] # cs[i].names[1])
              => DictGet(columns, cs[i].names[1]) = PyStr(cs[i].names[2])

\* the column of the last PRIMARY KEY(c) clause, None without one
DeclaredPrimaryKey(cs) ==
    LET pks == IndicesOf(cs, {"pk"})
    IN  IF pks = {} THEN PyNone
        ELSE PyStr(cs[CHOOSE i \in pks : \A j \in pks : j <= i].names[1])

\* "x -> y.z" for each FOREIGN KEY (x) REFERENCES y(z) clause, in order
DeclaredForeignKeys(cs) ==
    LET fks == SelectSeq(cs, LAMBDA c : c.kind = "fk")
    IN  PyList([k \in 1..Len(fks) |->
                  PyStr(fks[k].names[1] \o " -> " \o fks[k].names[2] \o "."
                        \o fks[k].names[3])])

\* the keys that the later comma-separated pieces of a key clause over
\* several columns leave in columns
LeftoverKeys(cs) ==
    { cs[i].names[2] \o ")" : i \in IndicesOf(cs, {"pk_several", "fk_several"}) }
    \cup { cs[i].names[5] \o ")" : i \in IndicesOf(cs, {"fk_several"}) }

----------------------------------------------------------------------------
(* C1 *)

\* one statement: column definitions `name type`, then one PRIMARY KEY(c)
ColumnsThenPrimaryKey(d) ==
    /\ Len(d) = 1
    /\ Len(d[1].clauses) >= 1
    /\ d[1].clauses[Len(d[1].clauses)].kind = "pk"
    /\ \A i \in 1..(Len(d[1].clauses) - 1) : d[1].clauses[i].kind = "col"

\* C1: for one statement CREATE TABLE t (<name type>..., PRIMARY KEY(c));
\* parse_sql_schema returns a schema with the single entry t, whose columns
\* map each declared name to its declared type string and whose primary_key
\* is c.
C1_ColumnsAndPrimaryKey ==
    (pc = "returned" /\ ColumnsThenPrimaryKey(ddl)) =>
        LET cs == ddl[1].clauses
            n  == Join(ddl[1].name)
        IN  /\ DictKeys(Value(ret)) = << n >>
            /\ ColumnsAsDeclared(DictGet(DictGet(Value(ret), n), "columns"), cs)
            /\ DictGet(DictGet(Value(ret), n), "primary_key")
                  = PyStr(cs[Len(cs)].names[1])

\* CREATE TABLE t (a INT, b VARCHAR(10), PRIMARY KEY(a)); has been parsed
C1_Witness ==
    /\ pc = "returned"
    /\ ddl = << Statement(<<"t">>, << ColClause(<<"a">>, tINT),
                                      ColClause(<<"b">>, tVARCHAR),
                                      PkClause(<<"a">>) >>) >>
    /\ Value(ret) =
         PyDict(<< << "t",
            PyDict(<< << "columns", PyDict(<< << "a", PyStr("INT") >>,
                                              << "b", PyStr("VARCHAR(10)") >> >>) >>,
                      << "primary_key", PyStr("a") >>,
                      << "foreign_keys", PyList(<< >>) >> >>) >> >>)

----------------------------------------------------------------------------
(* C2 *)

\* every clause is a column definition, a PRIMARY KEY(c) or a
\* FOREIGN KEY (x) REFERENCES y(z)
PlainClauses(d) ==
    \A i \in 1..Len(d) : \A k \in 1..Len(d[i].clauses) :
        d[i].clauses[k].kind \in {"col", "pk", "fk"}

\* C2: the schema has exactly one entry per distinct table name, the entries
\* stand in the order in which the names are first met in the text, and the
\* entry of a name met more than once holds what its last statement declares
\* and nothing else.
C2_OneEntryPerTableInOrder ==
    (pc = "returned" /\ PlainClauses(ddl)) =>
        /\ KeySet(Value(ret)) = TablesOf(ddl)
        /\ Len(Val(Value(ret))) = Cardinality(TablesOf(ddl))
        /\ \A p, q \in 1..Len(Val(Value(ret))) :
              p < q => FirstStatementOn(ddl, Val(Value(ret))[p][1])
                         < FirstStatementOn(ddl, Val(Value(ret))[q][1])
        /\ \A n \in TablesOf(ddl) :
              LET info == DictGet(Value(ret), n)
                  cs   == LastClausesOn(ddl, n)
              IN  /\ DictKeys(info) = << "columns", "primary_key", "foreign_keys" >>
                  /\ ColumnsAsDeclared(DictGet(info, "columns"), cs)
                  /\ DictGet(info, "primary_key") = DeclaredPrimaryKey(cs)
                  /\ DictGet(info, "foreign_keys") = DeclaredForeignKeys(cs)

\* statements on t, u and t again have been parsed: t stands first, and of
\* the first statement's column b, key and foreign key nothing is left
C2_Witness ==
    /\ pc = "returned"
    /\ Len(ddl) = 3
    /\ ddl[1] = Statement(<<"t">>, << ColClause(<<"b">>, tVARCHAR), PkClause(<<"b">>),
                                      FkClause(<<"b">>, <<"t">>, <<"a">>) >>)
    /\ ddl[2].name = <<"u">>
    /\ ddl[3] = Statement(<<"t">>, << ColClause(<<"a">>, tINT) >>)
    /\ DictKeys(Value(ret)) = << "t", "u" >>
    /\ DictGet(Value(ret), "t") =
          PyDict(<< << "columns", PyDict(<< << "a", PyStr("INT") >> >>) >>,
                    << "primary_key", PyNone >>,
                    << "foreign_keys", PyList(<< >>) >> >>)

----------------------------------------------------------------------------
(* C3 *)

\* C3: a table's foreign_keys holds the descriptor "x -> y.z" of every clause
\* FOREIGN KEY (x) REFERENCES y(z) of the table's body, one per clause, in
\* the order of the clauses.
C3_ForeignKeysInOrder ==
    pc = "returned" =>
        \A n \in TablesOf(ddl) :
            DictGet(DictGet(Value(ret), n), "foreign_keys")
                = DeclaredForeignKeys(LastClausesOn(ddl, n))

\* a body with two foreign keys, a column between them, has been parsed
C3_Witness ==
    /\ pc = "returned"
    /\ ddl = << Statement(<<"t">>, << FkClause(<<"a">>, <<"u">>, <<"b">>),
                                      ColClause(<<"a">>, tINT),
                                      FkClause(<<"b">>, <<"t">>, <<"a">>) >>) >>
    /\ DictGet(DictGet(Value(ret), "t"), "foreign_keys")
          = PyList(<< PyStr("a -> u.b"), PyStr("b -> t.a") >>)

----------------------------------------------------------------------------
(* C4 *)

\* C4 as claimed: columns holds nothing that comes from a key clause, and a
\* name recorded as primary_key is a key of columns.
C4_KeyClausesLeaveColumnsAlone ==
    pc = "returned" =>
        \A n \in TablesOf(ddl) :
            LET info == DictGet(Value(ret), n)
                cs   == LastClausesOn(ddl, n)
            IN  /\ KeySet(DictGet(info, "columns"))
                      \subseteq { cs[i].names[1] : i \in IndicesOf(cs, {"col", "bare"}) }
                /\ DictGet(info, "primary_key") # PyNone
                      => HasKey(DictGet(info, "columns"),
                                Val(DictGet(info, "primary_key")))

\* C4 as amended: the keys of columns are the names of the column clauses
\* and, for a key clause over several columns, what its later
\* comma-separated pieces begin with; a piece that begins with PRIMARY KEY or
\* FOREIGN KEY adds no key.  primary_key is the column of the last
\* PRIMARY KEY(c) clause, whether columns holds it or not.
C4_OnlyLeftoverPiecesReachColumns ==
    pc = "returned" =>
        \A n \in TablesOf(ddl) :
            LET info == DictGet(Value(ret), n)
                cs   == LastClausesOn(ddl, n)
            IN  /\ KeySet(DictGet(info, "columns"))
                      = { cs[i].names[1] : i \in IndicesOf(cs, {"col", "bare"}) }
                        \cup LeftoverKeys(cs)
                /\ DictGet(info, "primary_key") = DeclaredPrimaryKey(cs)

\* PRIMARY KEY (a, b) and primary key (b) have been parsed: "b)" is a
\* column, b is the primary key and no column
C4_Witness ==
    /\ pc = "returned"
    /\ ddl = << Statement(<<"t">>, << PkClauseSeveral(<<"a">>, <<"b">>),
                                      PkClauseLower(<<"b">>) >>) >>
    /\ DictGet(Value(ret), "t") =
          PyDict(<< << "columns", PyDict(<< << "b)", PyStr("VARCHAR(255)") >> >>) >>,
                    << "primary_key", PyStr("b") >>,
                    << "foreign_keys", PyList(<< >>) >> >>)

----------------------------------------------------------------------------
(* format_schema_for_prompt                                                *)

DigitStr == << "0", "1", "2", "3", "4", "5", "6", "7", "8", "9" >>

RECURSIVE NatStr(_)
NatStr(n) ==
    IF n < 10 THEN DigitStr[n + 1]
    ELSE NatStr(n \div 10) \o DigitStr[(n % 10) + 1]

\* repr(x)
RECURSIVE PyRepr(_)
RECURSIVE ReprElems(_, _)
RECURSIVE ReprItems(_, _)
PyRepr(x) ==
    CASE Tag(x) = "None" -> "None"
      [] Tag(x) = "int"  -> IF Val(x) < 0 THEN "-" \o NatStr(-Val(x)) ELSE NatStr(Val(x))
      [] Tag(x) = "str"  -> "'" \o Val(x) \o "'"
      [] Tag(x) = "list" -> "[" \o ReprElems(Val(x), 1) \o "]"
      [] Tag(x) = "dict" -> "{" \o ReprItems(Val(x), 1) \o "}"

ReprElems(xs, i) ==
    IF i > Len(xs) THEN ""
    ELSE PyRepr(xs[i]) \o (IF i < Len(xs) THEN ", " ELSE "") \o ReprElems(xs, i + 1)

ReprItems(kvs, i) ==
    IF i > Len(kvs) THEN ""
    ELSE "'" \o kvs[i][1] \o "': " \o PyRepr(kvs[i][2])
         \o (IF i < Len(kvs) THEN ", " ELSE "") \o ReprItems(kvs, i + 1)

\* what an f-string puts for {x}
PyFormat(x) == IF Tag(x) = "str" THEN Val(x) ELSE PyRepr(x)

\* a piece of the text, or the error that ended the formatting
Fine(t) == [ok |-> TRUE, text |-> t]
Failed(t, m) == [ok |-> FALSE, type |-> t, carries |-> m]

\* `for x in v`: the elements of a list, the keys of a dict, the characters
\* of a string (of the strings only those of at most one character are
\* taken apart here); None and int are not iterable
Iterate(x) ==
    CASE Tag(x) = "list" -> [ok |-> TRUE, elems |-> Val(x)]
      [] Tag(x) = "dict" -> [ok |-> TRUE, elems |-> [i \in 1..Len(Val(x)) |-> PyStr(Val(x)[i][1])]]
      [] Tag(x) = "str" /\ Len(Val(x)) <= 1
                        -> [ok |-> TRUE, elems |-> IF Val(x) = "" THEN << >> ELSE << x >>]
      [] Tag(x) \in {"None", "int"} -> [ok |-> FALSE, elems |-> << >>]

\* formatted += f"  - {col_name}: {col_type}\n", for the items from i on
RECURSIVE ColumnLines(_, _)
ColumnLines(kvs, i) ==
    IF i > Len(kvs) THEN ""
    ELSE "  - " \o kvs[i][1] \o ": " \o PyFormat(kvs[i][2]) \o "\n"
         \o ColumnLines(kvs, i + 1)

\* formatted += f"  - {fk}\n", for the elements from i on
RECURSIVE ForeignKeyLines(_, _)
ForeignKeyLines(xs, i) ==
    IF i > Len(xs) THEN ""
    ELSE "  - " \o PyFormat(xs[i]) \o "\n" \o ForeignKeyLines(xs, i + 1)

\* if 'columns' in table_info: ...; .items() exists on a dict only
ColumnsBlock_OnlyIfAny(table_info) ==
    IF ~HasKey(table_info, "columns") THEN Fine("")
    ELSE LET columns == DictGet(table_info, "columns")
         IN  IF ~IsDict(columns)
             THEN Failed("AttributeError", Tag(columns))
             ELSE IF Len(Val(columns)) = 0 THEN Fine("")
             ELSE Fine("Columns:\n" \o ColumnLines(Val(columns), 1))

ColumnsBlock(table_info) ==
    IF ~HasKey(table_info, "columns") THEN Fine("")
    ELSE LET columns == DictGet(table_info, "columns")
         IN  IF ~IsDict(columns)
             THEN Failed("AttributeError", Tag(columns))
             ELSE Fine("Columns:\n" \o ColumnLines(Val(columns), 1))

\* if 'primary_key' in table_info and table_info['primary_key']: ...
PrimaryKeyLine(table_info) ==
    IF HasKey(table_info, "primary_key")
       /\ Truthy(DictGet(table_info, "primary_key"))
    THEN "Primary Key: " \o PyFormat(DictGet(table_info, "primary_key")) \o "\n"
    ELSE ""

\* if 'foreign_keys' in table_info and table_info['foreign_keys']: ...
ForeignKeysBlock(table_info) ==
    IF ~(HasKey(table_info, "foreign_keys")
         /\ Truthy(DictGet(table_info, "foreign_keys")))
    THEN Fine("")
    ELSE LET it == Iterate(DictGet(table_info, "foreign_keys"))
         IN  IF ~it.ok
             THEN Failed("TypeError", Tag(DictGet(table_info, "foreign_keys")))
             ELSE Fine("Foreign Keys:\n" \o ForeignKeyLines(it.elems, 1))

\* the body of the loop over schema.items(), for one item
FormatTable(table_name, table_info) ==
    IF ~IsDict(table_info) THEN Fine("Table: " \o table_name \o "\n" \o "\n")
    ELSE LET c == ColumnsBlock(table_info)
             f == ForeignKeysBlock(table_info)
         IN  IF ~c.ok THEN c
             ELSE IF ~f.ok THEN f
             ELSE Fine("Table: " \o table_name \o "\n" \o c.text
                       \o PrimaryKeyLine(table_info) \o f.text \o "\n")

\* the loop over schema.items(), from item i on
RECURSIVE FormatTables(_, _)
FormatTables(kvs, i) ==
    IF i > Len(kvs) THEN Fine("")
    ELSE LET t == FormatTable(kvs[i][1], kvs[i][2])
         IN  IF ~t.ok THEN t
             ELSE LET rest == FormatTables(kvs, i + 1)
                  IN  IF ~rest.ok THEN rest ELSE Fine(t.text \o rest.text)

format_schema_for_prompt(sch) ==
    IF ~IsDict(sch) THEN Returned(PyStr("DATABASE SCHEMA:\n\n"))
    ELSE LET body == FormatTables(Val(sch), 1)
         IN  IF body.ok THEN Returned(PyStr("DATABASE SCHEMA:\n\n" \o body.text))
             ELSE Raised(body.type, body.carries)

----------------------------------------------------------------------------
(* validate_schema                                                         *)

validate_schema_AcceptsEmpty(sch) ==
    IF ~IsDict(sch) THEN Returned(FALSE) ELSE Returned(TRUE)

validate_schema(sch) ==
    IF ~IsDict(sch) THEN Returned(FALSE)
    ELSE IF Len(Val(sch)) = 0 THEN Returned(FALSE)
    ELSE Returned(TRUE)

----------------------------------------------------------------------------
(* The values format_schema_for_prompt and validate_schema are run on      *)

MaxTables == 2      \* entries of a schema of several tables

\* a field a table entry does not have
Absent == << "absent", 0 >>

Field(k, x) == IF x = Absent THEN << >> ELSE << << k, x >> >>

\* a table entry with the fields given
TableInfo(columns, primary_key, foreign_keys) ==
    PyDict(Field("columns", columns) \o Field("primary_key", primary_key)
           \o Field("foreign_keys", foreign_keys))

colsA  == PyDict(<< << "a", PyStr("INT") >> >>)
colsAB == PyDict(<< << "a", PyStr("INT") >>, << "b", PyStr("VARCHAR(10)") >> >>)
fksOne == PyList(<< PyStr("a -> u.b") >>)
fksTwo == PyList(<< PyStr("a -> u.b"), PyStr("b -> t.a") >>)

\* entries of the shape the data model gives, a field present or not
WellFormedInfos ==
    { TableInfo(c, p, f) :
        c \in { Absent, PyDict(<< >>), colsA, colsAB },
        p \in { Absent, PyNone, PyStr("a") },
        f \in { Absent, PyList(<< >>), fksOne, fksTwo } }

\* entries that are no dict, and entries with one field of another shape
MalformedInfos ==
    { PyNone, PyStr("x"), PyList(<< >>), PyInt(1) }
    \cup { TableInfo(c, PyStr("a"), fksOne) :
             c \in { PyList(<< PyStr("a") >>), PyStr("a INT"), PyNone } }
    \cup { TableInfo(colsA, p, fksOne) :
             p \in { PyInt(7), PyStr(""), PyList(<< PyStr("a"), PyStr("b") >>) } }
    \cup { TableInfo(colsA, PyStr("a"), f) :
             f \in { PyInt(3), PyNone, PyStr("x"),
                     PyDict(<< << "a", PyStr("u.b") >> >>) } }

\* the entries of the schemas of several tables
SeveralInfos ==
    { TableInfo(colsAB, PyStr("a"), fksTwo),
      TableInfo(PyDict(<< >>), PyNone, PyList(<< >>)),
      TableInfo(colsA, Absent, Absent),
      PyStr("x"),
      TableInfo(PyList(<< PyStr("a") >>), PyStr("a"), fksOne),
      TableInfo(colsA, PyStr("a"), PyInt(3)) }

TableKeys == { "t", "u", "w" }

\* the sequences of up to n different keys
KeySeqs(n) ==
    { ks \in SeqsUpTo(TableKeys, n) :
        \A i, j \in 1..Len(ks) : i < j => ks[i] # ks[j] }

SchemaDicts ==
    { PyDict(<< << "t", info >> >>) : info \in WellFormedInfos \cup MalformedInfos }
    \cup
    UNION { { PyDict([i \in 1..Len(ks) |-> << ks[i], infos[i] >>]) :
                infos \in [1..Len(ks) -> SeveralInfos] } : ks \in KeySeqs(MaxTables) }

NonDicts ==
    { PyNone, PyStr(""), PyStr("x"), PyList(<< >>), PyList(<< PyStr("t") >>),
      PyInt(0), PyInt(5) }

SchemaValues == SchemaDicts \cup NonDicts

----------------------------------------------------------------------------
(* A call of format_schema_for_prompt                                      *)

InitFormat ==
    /\ pc = "call"
    /\ arg \in SchemaValues
    /\ ret = NoOutcome
    /\ ddl = << >>
    /\ events = << >>
    /\ schema = PyNone
    /\ improved_prompt = PyNone

FormatSchemaForPrompt ==
    /\ pc = "call"
    /\ ret' = format_schema_for_prompt(arg)
    /\ pc' = "returned"
    /\ UNCHANGED << arg, ddl, events, schema, improved_prompt >>

NextFormat == FormatSchemaForPrompt

SpecFormat == InitFormat /\ [][NextFormat]_vars

----------------------------------------------------------------------------
(* A call of validate_schema                                               *)

InitValidate ==
    /\ pc = "call"
    /\ arg \in SchemaValues
    /\ ret = NoOutcome
    /\ ddl = << >>
    /\ events = << >>
    /\ schema = PyNone
    /\ improved_prompt = PyNone

ValidateSchema ==
    /\ pc = "call"
    /\ ret' = validate_schema(arg)
    /\ pc' = "returned"
    /\ UNCHANGED << arg, ddl, events, schema, improved_prompt >>

NextValidate == ValidateSchema

SpecValidate == InitValidate /\ [][NextValidate]_vars

----------------------------------------------------------------------------
(* C7 *)

\* C7: format_schema_for_prompt never fails, whatever the shape of the
\* table entries and of their fields: it returns a text.
C7_NeverFails ==
    pc = "returned" => Kind(ret) = "return"

----------------------------------------------------------------------------
(* C8 *)

IsStr(x) == Tag(x) = "str"

\* a dict whose fields, where present, have the data model's shapes: columns
\* a dict of strings, primary_key None or a name, foreign_keys a list of
\* strings
WellFormedInfo(info) ==
    /\ IsDict(info)
    /\ HasKey(info, "columns") =>
          /\ IsDict(DictGet(info, "columns"))
          /\ \A i \in 1..Len(Val(DictGet(info, "columns"))) :
                IsStr(Val(DictGet(info, "columns"))[i][2])
    /\ HasKey(info, "primary_key") =>
          \/ DictGet(info, "primary_key") = PyNone
          \/ IsStr(DictGet(info, "primary_key")) /\ Val(DictGet(info, "primary_key")) # ""
    /\ HasKey(info, "foreign_keys") =>
          /\ Tag(DictGet(info, "foreign_keys")) = "list"
          /\ \A i \in 1..Len(Val(DictGet(info, "foreign_keys"))) :
                IsStr(Val(DictGet(info, "foreign_keys"))[i])

WellFormedSchema(sch) ==
    IsDict(sch) /\ \A i \in 1..Len(Val(sch)) : WellFormedInfo(Val(sch)[i][2])

\* the lines, each ended by a line feed
RECURSIVE Unlines(_, _)
Unlines(ls, i) == IF i > Len(ls) THEN "" ELSE ls[i] \o "\n" \o Unlines(ls, i + 1)

\* the lines of one table; showColumns says whether the Columns: block is there
TableLines(n, info, showColumns) ==
    << "Table: " \o n >>
    \o (IF showColumns
        THEN << "Columns:" >>
             \o [i \in 1..Len(Val(DictGet(info, "columns"))) |->
                    "  - " \o Val(DictGet(info, "columns"))[i][1] \o ": "
                    \o Val(Val(DictGet(info, "columns"))[i][2])]
        ELSE << >>)
    \o (IF HasKey(info, "primary_key") /\ DictGet(info, "primary_key") # PyNone
        THEN << "Primary Key: " \o Val(DictGet(info, "primary_key")) >>
        ELSE << >>)
    \o (IF HasKey(info, "foreign_keys") /\ Val(DictGet(info, "foreign_keys")) # << >>
        THEN << "Foreign Keys:" >>
             \o [i \in 1..Len(Val(DictGet(info, "foreign_keys"))) |->
                    "  - " \o Val(Val(DictGet(info, "foreign_keys"))[i])]
        ELSE << >>)
    \o << "" >>

HasColumnsField(info) == HasKey(info, "columns")

HasSomeColumn(info) ==
    HasKey(info, "columns") /\ Val(DictGet(info, "columns")) # << >>

\* C8 as claimed: the header, a blank line, and per table in key order its
\* lines, the Columns: block being there only if the table has a column.
RECURSIVE ClaimedLines(_, _)
ClaimedLines(kvs, i) ==
    IF i > Len(kvs) THEN << >>
    ELSE TableLines(kvs[i][1], kvs[i][2], HasSomeColumn(kvs[i][2]))
         \o ClaimedLines(kvs, i + 1)

C8_ColumnsBlockOnlyWithColumns ==
    (pc = "returned" /\ WellFormedSchema(arg)) =>
        ret = Returned(PyStr(Unlines(<< "DATABASE SCHEMA:", "" >>
                                     \o ClaimedLines(Val(arg), 1), 1)))

\* C8 as amended: the same, the Columns: block being there whenever the
\* entry has a columns field, with no line under it when the field is empty.
RECURSIVE AmendedLines(_, _)
AmendedLines(kvs, i) ==
    IF i > Len(kvs) THEN << >>
    ELSE TableLines(kvs[i][1], kvs[i][2], HasColumnsField(kvs[i][2]))
         \o AmendedLines(kvs, i + 1)

C8_ColumnsBlockWithColumnsField ==
    (pc = "returned" /\ WellFormedSchema(arg)) =>
        ret = Returned(PyStr(Unlines(<< "DATABASE SCHEMA:", "" >>
                                     \o AmendedLines(Val(arg), 1), 1)))

\* a table with an empty columns field has been formatted
C8_Witness ==
    /\ pc = "returned"
    /\ arg = PyDict(<< << "t", TableInfo(PyDict(<< >>), PyStr("a"), fksOne) >> >>)
    /\ ret = Returned(PyStr(
         "DATABASE SCHEMA:\n\nTable: t\nColumns:\nPrimary Key: a\nForeign Keys:\n  - a -> u.b\n\n"))

----------------------------------------------------------------------------
(* C9 *)

\* C9: validate_schema returns true exactly for a dict with at least one
\* entry, false for the empty dict and for every value that is no dict, and
\* never raises.
C9_TrueIffNonEmptyMapping ==
    pc = "returned" =>
        ret = Returned(IF Tag(arg) = "dict" THEN Len(Val(arg)) >= 1 ELSE FALSE)

\* a schema whose only entry is no dict has been accepted
C9_Witness ==
    /\ pc = "returned"
    /\ arg = PyDict(<< << "t", PyStr("x") >> >>)
    /\ ret = Returned(TRUE)

----------------------------------------------------------------------------
(* load_schema_from_file                                                   *)

\* the last position of s that holds c (0 if none)
LastIndexOf(s, c) ==
    LET hits == { i \in 1..Len(s) : s[i] = c }
    IN  IF hits = {} THEN 0 ELSE CHOOSE i \in hits : \A j \in hits : j <= i

\* Path.name: what follows the last "/"
PathName(path) == SubSeq(path, LastIndexOf(path, "/") + 1, Len(path))

\* Path.suffix: the name from its last "." on, if that is neither the first
\* nor the last character of the name
Suffix(path) ==
    LET name == PathName(path)
        i    == LastIndexOf(name, ".")
    IN  IF 1 < i /\ i < Len(name) THEN SubSeq(name, i, Len(name)) ELSE << >>

sfxJSON == << ".", "j", "s", "o", "n" >>
sfxYAML == << ".", "y", "a", "m", "l" >>
sfxYML  == << ".", "y", "m", "l" >>
sfxSQL  == << ".", "s", "q", "l" >>

\* an event: what was done, and to what
Event(op, what) == << op, what >>

\* what a call did and how it ended
Ran(evs, outcome) == [events |-> evs, outcome |-> outcome]

\* raise FileNotFoundError(f"Schema file not found: {file_path}")
SchemaFileNotFound(path) == Raised("FileNotFoundError", Join(path))

\* raise ValueError(f"Unsupported file format: {file_path.suffix}")
UnsupportedFormat_Lowered(path) == Raised("ValueError", Join(StrLower(Suffix(path))))

UnsupportedFormat(path) == Raised("ValueError", Join(Suffix(path)))

\* with open(file_path, 'r') as f: ..., the file being readable or not
OpenFailed(path) == Raised("PermissionError", Join(path))

\* the try block: the branch the lower-cased suffix selects.  Whatever is
\* raised in it is logged and raised again as it is.
LoadBySuffix(path, file) ==
    LET suffix == StrLower(Suffix(path))
        opened == << Event("open", Join(path)) >>
    IN  IF suffix = sfxJSON
        THEN IF ~file.readable THEN Ran(opened, OpenFailed(path))
             ELSE Ran(opened \o << Event("json.load", Join(path)) >>, file.doc.json)
        ELSE IF suffix \in { sfxYAML, sfxYML }
        THEN IF ~file.readable THEN Ran(opened, OpenFailed(path))
             ELSE Ran(opened \o << Event("yaml.safe_load", Join(path)) >>,
                      file.doc.yaml)
        ELSE IF suffix = sfxSQL
        THEN IF ~file.readable THEN Ran(opened, OpenFailed(path))
             ELSE Ran(opened \o << Event("read", Join(path)),
                                   Event("parse_sql_schema", Join(path)) >>,
                      Returned(parse_sql_schema(file.doc.text)))
        ELSE Ran(<< >>, UnsupportedFormat(path))

\* the same with the suffix looked at before the file is looked for
load_schema_from_file_SuffixFirst(path, file) ==
    LET suffix == StrLower(Suffix(path))
    IN  IF suffix \notin { sfxJSON, sfxYAML, sfxYML, sfxSQL }
        THEN Ran(<< >>, UnsupportedFormat(path))
        ELSE IF ~file.exists
        THEN Ran(<< Event("exists", Join(path)) >>, SchemaFileNotFound(path))
        ELSE LET run == LoadBySuffix(path, file)
             IN  Ran(<< Event("exists", Join(path)) >> \o run.events, run.outcome)

load_schema_from_file(path, file) ==
    IF ~file.exists
    THEN Ran(<< Event("exists", Join(path)) >>, SchemaFileNotFound(path))
    ELSE LET run == LoadBySuffix(path, file)
         IN  Ran(<< Event("exists", Join(path)) >> \o run.events, run.outcome)

----------------------------------------------------------------------------
(* The paths and files load_schema_from_file is run on                     *)

\* a path written as a stem and an extension
PathOf(stem, ext) == [file_path |-> stem \o ext, ext |-> ext]

Paths ==
    { PathOf(<< "s" >>, sfxJSON), PathOf(<< "s" >>, StrUpper(sfxJSON)),
      PathOf(<< "s" >>, sfxYAML), PathOf(<< "s" >>, sfxYML),
      PathOf(<< "s" >>, sfxSQL),  PathOf(<< "s" >>, << ".", "S", "q", "l" >>),
      PathOf(<< "s" >>, << ".", "t", "x", "t" >>),
      PathOf(<< "s" >>, << ".", "T", "X", "T" >>),
      PathOf(<< "s" >>, << >>),
      PathOf(<< "d", ".", "s", "q", "l", "/", "s" >>, << >>) }

\* a file's text, and what the two decoders make of it (theirs to say)
Doc(text, json, yaml) == [text |-> text, json |-> json, yaml |-> yaml]

txtQuoted(w) == << "\"" >> \o w \o << "\"" >>

\* {}
docEmpty == Doc(<< "{", "}" >>, Returned(PyDict(<< >>)), Returned(PyDict(<< >>)))

\* {"t": {"columns": {"a": "INT"}}}
docSchema ==
    LET v == PyDict(<< << "t", TableInfo(colsA, Absent, Absent) >> >>)
    IN  Doc(<< "{" >> \o txtQuoted(<< "t" >>) \o << ":", " ", "{" >>
            \o txtQuoted(<< "c","o","l","u","m","n","s" >>) \o << ":", " ", "{" >>
            \o txtQuoted(<< "a" >>) \o << ":", " " >> \o txtQuoted(tINT)
            \o << "}", "}", "}" >>,
            Returned(v), Returned(v))

\* {"t": {"columns": ["a"]}}
docColumnsList ==
    LET v == PyDict(<< << "t", TableInfo(PyList(<< PyStr("a") >>), Absent, Absent) >> >>)
    IN  Doc(<< "{" >> \o txtQuoted(<< "t" >>) \o << ":", " ", "{" >>
            \o txtQuoted(<< "c","o","l","u","m","n","s" >>) \o << ":", " ", "[" >>
            \o txtQuoted(<< "a" >>) \o << "]", "}", "}" >>,
            Returned(v), Returned(v))

\* {   (cut short: neither decoder takes it)
docBroken ==
    Doc(<< "{" >>, Raised("JSONDecodeError", "{"), Raised("YAMLError", "{"))

\* CREATE TABLE t (a INT, PRIMARY KEY(a));   (no JSON; to YAML, one string)
docSql ==
    LET text == RenderDdl(<< Statement(<< "t" >>, << ColClause(<< "a" >>, tINT),
                                                     PkClause(<< "a" >>) >>) >>, 1)
    IN  Doc(text, Raised("JSONDecodeError", Join(text)), Returned(PyStr(Join(text))))

Docs == { docEmpty, docSchema, docColumnsList, docBroken, docSql }

\* no file; a file that cannot be opened; a file that can be read
Files ==
    { [exists |-> FALSE, readable |-> FALSE, doc |-> docEmpty],
      [exists |-> TRUE,  readable |-> FALSE, doc |-> docEmpty] }
    \cup { [exists |-> TRUE, readable |-> TRUE, doc |-> d] : d \in Docs }

----------------------------------------------------------------------------
(* A call of load_schema_from_file                                         *)

InitLoad ==
    /\ pc = "call"
    /\ arg \in { [path |-> p, file |-> f] : p \in Paths, f \in Files }
    /\ ret = NoOutcome
    /\ ddl = << >>
    /\ events = << >>
    /\ schema = PyNone
    /\ improved_prompt = PyNone

LoadSchemaFromFile ==
    /\ pc = "call"
    /\ LET run == load_schema_from_file(arg.path.file_path, arg.file)
       IN  /\ events' = events \o run.events
           /\ ret' = run.outcome
    /\ pc' = "returned"
    /\ UNCHANGED << arg, ddl, schema, improved_prompt >>

NextLoad == LoadSchemaFromFile

SpecLoad == InitLoad /\ [][NextLoad]_vars

----------------------------------------------------------------------------
(* C5 *)

\* C5: for a path that does not exist, whatever its extension,
\* load_schema_from_file raises FileNotFoundError carrying the path, and has
\* done nothing but look for the file: no open, no read, no decode, no parse.
C5_MissingFileIsNotFound ==
    (pc = "returned" /\ ~arg.file.exists) =>
        /\ ret = Raised("FileNotFoundError", Join(arg.path.file_path))
        /\ events = << Event("exists", Join(arg.path.file_path)) >>

\* the missing path s.txt has been refused as not found
C5_Witness ==
    /\ pc = "returned"
    /\ arg.path = PathOf(<< "s" >>, << ".", "t", "x", "t" >>)
    /\ ~arg.file.exists
    /\ ret = Raised("FileNotFoundError", "s.txt")

----------------------------------------------------------------------------
(* C6 *)

\* C6 as claimed: for a path whose extension is none of .json, .yaml, .yml,
\* .sql, load_schema_from_file raises ValueError carrying the extension, and
\* opens, reads, decodes and parses nothing.
C6_OtherExtensionIsUnsupported ==
    (pc = "returned" /\ arg.path.ext \notin { sfxJSON, sfxYAML, sfxYML, sfxSQL }) =>
        /\ ret = Raised("ValueError", Join(arg.path.ext))
        /\ \A i \in 1..Len(events) : events[i][1] = "exists"

\* C6 as amended: the same for a path that exists and whose extension is,
\* letter case set aside, none of the four; the error carries the extension
\* as it is written.
C6_OtherExtensionOfExistingFile ==
    (/\ pc = "returned"
     /\ arg.file.exists
     /\ StrLower(arg.path.ext) \notin { sfxJSON, sfxYAML, sfxYML, sfxSQL }) =>
        /\ ret = Raised("ValueError", Join(arg.path.ext))
        /\ \A i \in 1..Len(events) : events[i][1] = "exists"

\* the existing file s.TXT has been refused as unsupported
C6_Witness ==
    /\ pc = "returned"
    /\ arg.path = PathOf(<< "s" >>, << ".", "T", "X", "T" >>)
    /\ arg.file.exists
    /\ ret = Raised("ValueError", ".TXT")
    /\ events = << Event("exists", "s.TXT") >>

----------------------------------------------------------------------------
(* improve_prompt, generate_sql_from_prompt, pipeline_generate_sql         *)

\* schema_context once the schema is formatted: "\n\n" and the text, or
\* the error the formatting raised
PrefixedContext(text) ==
    IF Kind(text) = "raise" THEN text
    ELSE Returned(PyStr("\n\n" \o Val(Value(text))))

\* schema_context: "\n\n" and the formatted schema if the schema is truthy
\* and valid, "" otherwise; formatting may raise
SchemaContext(sch) ==
    IF Truthy(sch) /\ Value(validate_schema(sch))
    THEN PrefixedContext(format_schema_for_prompt(sch))
    ELSE Returned(PyStr(""))

\* the rest of the try block of improve_prompt and of
\* generate_sql_from_prompt once schema_context is built: call the model
\* (the event keeps the context added to the system message) and strip its
\* reply; whatever is raised is raised again as RuntimeError(message)
AskModelWith(context, reply, message) ==
    IF Kind(context) = "raise"
    THEN Ran(<< >>, Raised("RuntimeError", message))
    ELSE Ran(<< Event("client.chat.completions.create", Val(Value(context))) >>,
             IF Kind(reply) = "raise"
             THEN Raised("RuntimeError", message)
             ELSE Returned(PyStr(Join(Strip(Value(reply))))))

AskModel(sch, reply, message) ==
    AskModelWith(SchemaContext(sch), reply, message)

improve_prompt(original_prompt, sch, reply) ==
    AskModel(sch, reply, "Erro ao melhorar prompt.")

generate_sql_from_prompt(prompt, sch, reply) ==
    AskModel(sch, reply, "Erro ao gerar SQL.")

\* what the model service does with a request: a text, or an error
Replies ==
    { Returned(<< " ", "S", "E", "L", "E", "C", "T", " ", "1", "\n" >>),
      Raised("APIError", "") }

\* `if schema_file_path:` -- None and "" are no path
PathGiven(p) == Tag(p) = "str" /\ Len(Val(p)) > 0

\* the arguments of pipeline_generate_sql (schema_file_path holds the
\* characters of the path), and the file the path names
PipelineInputs ==
    { [original_prompt |-> "q", schema |-> sch,
       schema_file_path |-> << "str", p.file_path >>, ext |-> p.ext, file |-> f] :
        sch \in { PyNone, PyDict(<< << "t", TableInfo(colsA, PyStr("a"), Absent) >> >>) },
        p \in Paths, f \in Files }
    \cup
    { [original_prompt |-> "q", schema |-> sch,
       schema_file_path |-> p, ext |-> << >>, file |-> f] :
        sch \in { PyNone, PyDict(<< << "t", TableInfo(colsA, PyStr("a"), Absent) >> >>),
                  PyDict(<< << "t", TableInfo(PyList(<< PyStr("a") >>), Absent, Absent) >> >>) },
        p \in { PyNone, << "str", << >> >> },
        f \in { [exists |-> FALSE, readable |-> FALSE, doc |-> docEmpty] } }

InitPipeline ==
    /\ pc = "start"
    /\ arg \in PipelineInputs
    /\ ret = NoOutcome
    /\ ddl = << >>
    /\ events = << >>
    /\ schema = arg.schema
    /\ improved_prompt = PyNone

\* the events of one call: the call, what the callee did, how it ended
CallEvents(op, what, run) ==
    << Event(op, what) >> \o run.events
    \o << IF Kind(run.outcome) = "raise"
          THEN Event(op \o ":raise", Value(run.outcome)[1])
          ELSE Event(op \o ":return", "") >>

\* the load has ended (an error of the load is put aside and the schema
\* argument is used)
PipelineLoadEnded_FallsBack(run) ==
    /\ events' = events \o CallEvents("load_schema_from_file",
                                      Join(Val(arg.schema_file_path)), run)
    /\ schema' = IF Kind(run.outcome) = "raise" THEN schema ELSE Value(run.outcome)
    /\ pc' = "improve"
    /\ UNCHANGED ret

\* the load has ended: its value is the schema, its error leaves
\* pipeline_generate_sql
PipelineLoadEnded(run) ==
    /\ events' = events \o CallEvents("load_schema_from_file",
                                      Join(Val(arg.schema_file_path)), run)
    /\ IF Kind(run.outcome) = "raise"
       THEN /\ ret' = run.outcome
            /\ pc' = "raised"
            /\ UNCHANGED schema
       ELSE /\ schema' = Value(run.outcome)
            /\ pc' = "improve"
            /\ UNCHANGED ret

\* if schema_file_path: schema = load_schema_from_file(schema_file_path)
PipelineLoadSchema ==
    /\ pc = "start"
    /\ PathGiven(arg.schema_file_path)
    /\ PipelineLoadEnded(load_schema_from_file(Val(arg.schema_file_path), arg.file))
    /\ UNCHANGED << arg, ddl, improved_prompt >>

\* no schema_file_path: the schema argument is used as it is
PipelineKeepSchema ==
    /\ pc = "start"
    /\ ~PathGiven(arg.schema_file_path)
    /\ pc' = "improve"
    /\ UNCHANGED << arg, ret, ddl, events, schema, improved_prompt >>

\* improve_prompt has ended: its value is improved_prompt, its error leaves
\* pipeline_generate_sql
PipelineImproveEnded(run) ==
    /\ events' = events \o CallEvents("improve_prompt", arg.original_prompt, run)
    /\ IF Kind(run.outcome) = "raise"
       THEN /\ ret' = run.outcome
            /\ pc' = "raised"
            /\ UNCHANGED improved_prompt
       ELSE /\ improved_prompt' = Value(run.outcome)
            /\ pc' = "generate"
            /\ UNCHANGED ret

\* improved_prompt = improve_prompt(original_prompt, schema)
PipelineImprovePrompt ==
    /\ pc = "improve"
    /\ \E reply \in Replies :
         PipelineImproveEnded(improve_prompt(arg.original_prompt, schema, reply))
    /\ UNCHANGED << arg, ddl, schema >>

\* generate_sql_from_prompt has ended: its value is returned, its error
\* leaves pipeline_generate_sql
PipelineGenerateEnded(run) ==
    /\ events' = events \o CallEvents("generate_sql_from_prompt",
                                      Val(improved_prompt), run)
    /\ ret' = run.outcome
    /\ pc' = IF Kind(run.outcome) = "raise" THEN "raised" ELSE "done"

\* final_sql = generate_sql_from_prompt(improved_prompt, schema);
\* return final_sql
PipelineGenerateSql ==
    /\ pc = "generate"
    /\ \E reply \in Replies :
         PipelineGenerateEnded(
             generate_sql_from_prompt(Val(improved_prompt), schema, reply))
    /\ UNCHANGED << arg, ddl, schema, improved_prompt >>

NextPipeline ==
    \/ PipelineLoadSchema
    \/ PipelineKeepSchema
    \/ PipelineImprovePrompt
    \/ PipelineGenerateSql

SpecPipeline == InitPipeline /\ [][NextPipeline]_vars

----------------------------------------------------------------------------
(* C10 *)

\* the error the load of the run's file must end with, read off the file:
\* none if the load succeeds
LoadErrorOf(a) ==
    LET ext == StrLower(a.ext)
    IN  IF ~a.file.exists
        THEN Raised("FileNotFoundError", Join(Val(a.schema_file_path)))
        ELSE IF ext \notin { sfxJSON, sfxYAML, sfxYML, sfxSQL }
        THEN Raised("ValueError", Join(a.ext))
        ELSE IF ~a.file.readable
        THEN Raised("PermissionError", Join(Val(a.schema_file_path)))
        ELSE IF ext = sfxJSON /\ Kind(a.file.doc.json) = "raise" THEN a.file.doc.json
        ELSE IF ext \in { sfxYAML, sfxYML } /\ Kind(a.file.doc.yaml) = "raise"
        THEN a.file.doc.yaml
        ELSE NoOutcome

\* the places of the events of one kind
EventsOf(op) == { i \in 1..Len(events) : events[i][1] = op }

\* C10: when a schema_file_path is given and the load fails, the pipeline
\* ends with the load's error as it is, and neither improve_prompt nor
\* generate_sql_from_prompt nor the model is called.  Whenever the model is
\* reached, the load (if any) has returned before improve_prompt is called,
\* improve_prompt has returned before generate_sql_from_prompt is called,
\* and generate_sql_from_prompt is not called after improve_prompt failed.
C10_LoadFirstThenImproveThenGenerate ==
    /\ (PathGiven(arg.schema_file_path) /\ LoadErrorOf(arg) # NoOutcome) =>
          /\ EventsOf("improve_prompt") = {}
          /\ EventsOf("generate_sql_from_prompt") = {}
          /\ EventsOf("client.chat.completions.create") = {}
          /\ pc \in {"start", "raised"}
          /\ pc = "raised" => ret = LoadErrorOf(arg)
    /\ \A i \in EventsOf("improve_prompt") :
          PathGiven(arg.schema_file_path) =>
              \E j \in EventsOf("load_schema_from_file:return") : j < i
    /\ \A i \in EventsOf("generate_sql_from_prompt") :
          \E j \in EventsOf("improve_prompt:return") : j < i
    /\ \A i \in EventsOf("client.chat.completions.create") :
          \E j \in EventsOf("improve_prompt") : j < i
    /\ EventsOf("improve_prompt:raise") # {} =>
          EventsOf("generate_sql_from_prompt") = {}

\* a pipeline whose schema file s.json could not be decoded has ended with
\* the decoder's error, the model never called
C10_Witness ==
    /\ pc = "raised"
    /\ arg.schema_file_path = << "str", << "s" >> \o sfxJSON >>
    /\ arg.file.readable
    /\ arg.file.doc = docBroken
    /\ ret = Raised("JSONDecodeError", "{")
    /\ EventsOf("client.chat.completions.create") = {}

=============================================================================
